---- MODULE Spec2Model ----
(***************************************************************************)
(* FreightQuote Pro: the quote page (HomePage), its history view           *)
(* (QuoteHistory), the browser's localStorage and the createQuote          *)
(* endpoint with its distance lookup.                                      *)
(*                                                                         *)
(* JavaScript strings that the code inspects (locations, filters, weight   *)
(* text, cached distances, storage keys) are tuples of one-character       *)
(* strings, so that concatenation, includes() and parseFloat() are         *)
(* computed and not assumed.  null is the empty tuple None and a present   *)
(* value v is Some(v).  Money is a count of 10^-8 currency units, in which   *)
(* every product of calculateTotal is exact.                               *)
(***************************************************************************)
EXTENDS Integers, Sequences, FiniteSets, TLC

\* a creation is started only while the ledger holds fewer quotes than this
MaxQuotes == 3

None == <<>>
Some(v) == <<v>>

-----------------------------------------------------------------------------
(* Inputs *)

Toronto == <<"T", "o">>
Montreal == <<"M", "o">>
Locations == {Toronto, Montreal}

EquipmentTypes == {"dry_van", "reefer", "flatbed"}

\* what <input type="date"> yields: "" or YYYY-MM-DD
PickupDates == {"1970-01-02", "1970-01-03"}

\* what the filter controls of the history view yield
OriginFilters == {<<>>, <<"t">>}
EquipmentFilters == {"", "reefer"}

\* element.distance.value of the Distance Matrix answer, in metres
MetresValues == {0, 2000}

\* the three ways the lookup can end for the handler
LookupOutcomes == {"OK", "ZERO_RESULTS", "error"}

-----------------------------------------------------------------------------
(* Strings *)

LowerChar(c) ==
  CASE c = "T" -> "t"
    [] c = "M" -> "m"
    [] c = "O" -> "o"
    [] OTHER -> c

toLowerCase(s) == [i \in 1..Len(s) |-> LowerChar(s[i])]

includes(s, sub) ==
  \E i \in 0..(Len(s) - Len(sub)) : SubSeq(s, i + 1, i + Len(sub)) = sub

DigitChar(d) ==
  CASE d = 0 -> "0" [] d = 1 -> "1" [] d = 2 -> "2" [] d = 3 -> "3"
    [] d = 4 -> "4" [] d = 5 -> "5" [] d = 6 -> "6" [] d = 7 -> "7"
    [] d = 8 -> "8" [] d = 9 -> "9"

DigitValue(c) ==
  CASE c = "0" -> 0 [] c = "1" -> 1 [] c = "2" -> 2 [] c = "3" -> 3
    [] c = "4" -> 4 [] c = "5" -> 5 [] c = "6" -> 6 [] c = "7" -> 7
    [] c = "8" -> 8 [] c = "9" -> 9

IsDigit(c) == c \in {"0", "1", "2", "3", "4", "5", "6", "7", "8", "9"}

\* String(n) for an integer n, as localStorage.setItem stores a number
RECURSIVE NatToString(_)
NatToString(n) ==
  IF n < 10 THEN <<DigitChar(n)>>
  ELSE NatToString(n \div 10) \o <<DigitChar(n % 10)>>

NumberToString(n) == IF n < 0 THEN <<"-">> \o NatToString(-n) ELSE NatToString(n)

\* the value of the leading run of digits of s, read after acc
RECURSIVE ParseDigits(_, _)
ParseDigits(s, acc) ==
  IF s = <<>> \/ ~IsDigit(Head(s)) THEN acc
  ELSE ParseDigits(Tail(s), acc * 10 + DigitValue(Head(s)))

\* parseFloat on the texts the model feeds it: an optional sign, then digits
parseFloat(s) ==
  IF s # <<>> /\ Head(s) = "-" THEN -ParseDigits(Tail(s), 0)
  ELSE ParseDigits(s, 0)

\* new Date(pickupDate), in milliseconds
DateValue(pickupDate) ==
  CASE pickupDate = "1970-01-01" -> 0
    [] pickupDate = "1970-01-02" -> 86400000
    [] pickupDate = "1970-01-03" -> 172800000
    [] pickupDate = "1970-01-04" -> 259200000

-----------------------------------------------------------------------------
(* Rate calculation: pages/api/createQuote *)

\* an amount of money: the count of 10^-8 currency units, written in base
\* 10000 with the lowest digit first, so that no product leaves the integers
\* of the checker; NaN is the amount that is not a number
NaN == <<>>

\* the digits brought back below 10000, the excess carried upward
RECURSIVE Carry(_, _)
Carry(s, c) ==
  IF s = <<>> THEN <<>>
  ELSE <<(Head(s) + c) % 10000>> \o Carry(Tail(s), (Head(s) + c) \div 10000)

Amount(n) == Carry(<<n, 0, 0, 0>>, 0)

\* the one element of a set of one element; an operand is taken from such a
\* set where it is to be computed once and not at each of its uses
The(S) == CHOOSE v \in S : TRUE

\* a + b
Plus(a, b) ==
  The({IF x = NaN \/ y = NaN THEN NaN
       ELSE Carry([i \in 1..Len(x) |-> x[i] + y[i]], 0) : x \in {a}, y \in {b}})

\* a * k for a natural number k
Times(a, k) ==
  The({IF x = NaN THEN NaN
       ELSE Carry([i \in 1..Len(x) |-> x[i] * k], 0) : x \in {a}})

\* the digits of a / k, from the highest down, r being the remainder so far
RECURSIVE Quotient(_, _, _)
Quotient(a, k, r) ==
  IF a = <<>> THEN <<>>
  ELSE LET cur == r * 10000 + a[Len(a)]
       IN Append(Quotient(SubSeq(a, 1, Len(a) - 1), k, cur % k), cur \div k)

\* a / k for a positive k that divides a
Over(a, k) == The({IF x = NaN THEN NaN ELSE Quotient(x, k, 0) : x \in {a}})

avgKmRate == 161600000

\* faulty variant: a weight of exactly 10000 takes the lower percentage
fuelSurchargePercentUpTo(weight) == IF weight <= 10000 THEN 237 ELSE 557

\* in thousandths
fuelSurchargePercent(weight) == IF weight < 10000 THEN 237 ELSE 557

\* faulty variant: the percentages of reefer and flatbed exchanged
multipliersExchanged == [dry_van |-> 0, reefer |-> 15, flatbed |-> 30]

\* in hundredths; an equipment type outside its domain has no multiplier
multipliers == [dry_van |-> 0, reefer |-> 30, flatbed |-> 15]

\* faulty variant: the charge starts at 10000 and counts the whole weight
weightFactorWholeWeight(weight) ==
  IF weight >= 10000 THEN Times(Amount(weight), 100000) ELSE Amount(0)

\* ((weight - 10000) / 100) * 0.1 above 10000, else 0
weightFactor(weight) ==
  IF weight > 10000 THEN Times(Amount(weight - 10000), 100000) ELSE Amount(0)

calculateTotal(distance, weight, equipmentType) ==
  LET baseRate == Times(Amount(avgKmRate), distance)
      \* baseRate * undefined is NaN
      equipmentCharge ==
        IF equipmentType \in DOMAIN multipliers
        THEN Over(Times(baseRate, multipliers[equipmentType]), 100)
        ELSE NaN
      fuelSurcharge ==
        Over(Times(Plus(baseRate, equipmentCharge),
                   fuelSurchargePercent(weight)), 1000)
  IN [total |-> Plus(Plus(Plus(baseRate, equipmentCharge), fuelSurcharge),
                     weightFactor(weight)),
      baseRate |-> baseRate,
      weightFactor |-> weightFactor(weight),
      fuelSurcharge |-> fuelSurcharge,
      equipmentCharge |-> equipmentCharge]

maximumDayTravel == 541

Ceil(a, b) == (a + b - 1) \div b

\* faulty variant: a distance of 0 is not given its day
DaysWithoutZeroCase(distance) == Ceil(distance, maximumDayTravel)

Days(distance) == IF distance = 0 THEN 1 ELSE Ceil(distance, maximumDayTravel)

\* the quote object the handler builds from the request body and the distance
BuildQuote(body, distance) ==
  The({[origin |-> body.origin,
        destination |-> body.destination,
        equipmentType |-> body.equipmentType,
        weight |-> body.weight,
        pickupDate |-> body.pickupDate,
        distance |-> distance,
        days |-> Days(distance),
        total |-> t.total,
        baseRate |-> t.baseRate,
        weightFactor |-> t.weightFactor,
        fuelSurcharge |-> t.fuelSurcharge,
        equipmentCharge |-> t.equipmentCharge] :
          t \in {calculateTotal(distance, body.weight, body.equipmentType)}})

-----------------------------------------------------------------------------
(* Messages: an error text, with the two locations the no-route text quotes *)

Msg(text) == [text |-> text, origin |-> <<>>, destination |-> <<>>]

NoRouteMsg(origin, destination) ==
  [text |-> "No route between ${origin} and ${destination} available.",
   origin |-> origin, destination |-> destination]

NoError == Msg("")

-----------------------------------------------------------------------------
(* The ledger *)

sortQuotes(a, b) == DateValue(a.pickupDate) - DateValue(b.pickupDate)

\* q placed after every element that does not compare greater than it
RECURSIVE InsertStable(_, _)
InsertStable(q, s) ==
  The({IF t = <<>> THEN <<e>>
       ELSE IF sortQuotes(t[Len(t)], e) <= 0 THEN Append(t, e)
       ELSE Append(InsertStable(e, SubSeq(t, 1, Len(t) - 1)), t[Len(t)]) :
         e \in {q}, t \in {s}})

\* Array.prototype.sort(sortQuotes): a stable sort
RECURSIVE Sort(_)
Sort(s) ==
  The({IF t = <<>> THEN <<>>
       ELSE InsertStable(t[Len(t)], Sort(SubSeq(t, 1, Len(t) - 1))) : t \in {s}})

\* array.splice(index, 1) on a copy; index counts from 0
Splice(s, index) ==
  IF index < 0 \/ index >= Len(s) THEN s
  ELSE SubSeq(s, 1, index) \o SubSeq(s, index + 2, Len(s))

\* faulty variant: the new quote put in front and the sort left out
UpdatedQuotesUnsorted(q, captured) == <<q>> \o captured

\* [data.quote, ...quotes].sort(sortQuotes)
UpdatedQuotes(q, captured) == Sort(<<q>> \o captured)

\* faulty variant: the origin is compared as written, case and all
MatchesFiltersCaseKept(q, f) ==
  /\ (Len(f.origin) = 0 \/ (q.origin # <<>> /\ includes(q.origin, f.origin)))
  /\ (Len(f.destination) = 0
        \/ (q.destination # <<>>
              /\ includes(toLowerCase(q.destination), toLowerCase(f.destination))))
  /\ (f.equipment = "" \/ q.equipmentType = f.equipment)

MatchesFilters(q, f) ==
  /\ (Len(f.origin) = 0
        \/ (q.origin # <<>>
              /\ includes(toLowerCase(q.origin), toLowerCase(f.origin))))
  /\ (Len(f.destination) = 0
        \/ (q.destination # <<>>
              /\ includes(toLowerCase(q.destination), toLowerCase(f.destination))))
  /\ (f.equipment = "" \/ q.equipmentType = f.equipment)

\* quotes.filter(...): the subsequence of the quotes that match
RECURSIVE Filter(_, _)
Filter(s, f) ==
  IF s = <<>> THEN <<>>
  ELSE (IF MatchesFilters(Head(s), f) THEN <<Head(s)>> ELSE <<>>)
         \o Filter(Tail(s), f)

-----------------------------------------------------------------------------
(* localStorage *)

Key(origin, destination) == origin \o <<"-">> \o destination

getItem(store, key) == IF key \in DOMAIN store THEN Some(store[key]) ELSE None

setItem(store, key, value) ==
  [k \in DOMAIN store \cup {key} |-> IF k = key THEN value ELSE store[k]]

EmptyStore == [k \in {} |-> <<>>]

-----------------------------------------------------------------------------
(* State *)

VARIABLES
  form,            \* HomePage: the fields of the quote form
  quotes,          \* HomePage: the ledger
  quote,           \* HomePage: the quote on display, or None
  filters,         \* HomePage: the filters of the history view
  loading,         \* HomePage: a creation is in flight
  errorMessage,    \* HomePage: the error on display
  activeTab,       \* HomePage: "quote" or "history"
  expandedIndex,   \* QuoteHistory: None or Some(index of the expanded card)
  currentPage,     \* QuoteHistory: the page on display, from 1
  storedQuotes,    \* localStorage item 'quotes': None or Some(ledger)
  distanceCache,   \* localStorage items `${origin}-${destination}`
  inflight,        \* the createQuote request under way, and who awaits it
  lookupResult     \* how the Distance Matrix lookup of that request ended

vars == <<form, quotes, quote, filters, loading, errorMessage, activeTab,
          expandedIndex, currentPage, storedQuotes, distanceCache,
          inflight, lookupResult>>

pageVars == <<form, quotes, quote, filters, loading, errorMessage, activeTab,
              expandedIndex, currentPage, storedQuotes, distanceCache>>

itemsPerPage == 5

NoBody ==
  [origin |-> <<>>, destination |-> <<>>, equipmentType |-> "", weight |-> 0,
   pickupDate |-> "", cacheDistance |-> None]

NoResponse == [status |-> 0, error |-> NoError, quote |-> None]

\* no request under way
Idle ==
  [stage |-> "idle", from |-> "none", method |-> "", body |-> NoBody,
   quotes |-> <<>>, calls |-> 0, response |-> NoResponse]

NoFilters == [origin |-> <<>>, equipment |-> "", destination |-> <<>>]

\* the form before anything was entered
NoForm ==
  [origin |-> <<>>, destination |-> <<>>,
   originInputValue |-> <<>>, destinationInputValue |-> <<>>,
   equipmentType |-> "dry_van", weight |-> <<>>, pickupDate |-> ""]

\* the page as first rendered and after its load effect, over a given store
Init ==
  /\ form = NoForm
  /\ quotes = <<>>
  /\ quote = None
  /\ filters = NoFilters
  /\ loading = FALSE
  /\ errorMessage = NoError
  /\ activeTab = "quote"
  /\ expandedIndex = None
  /\ currentPage = 1
  /\ storedQuotes = None
  /\ distanceCache = EmptyStore
  /\ inflight = Idle
  /\ lookupResult = "none"

-----------------------------------------------------------------------------
(* HomePage *)

\* a form that passes the validations of handleCreateQuote
Form(origin, destination, pickupDate) ==
  [origin |-> origin, destination |-> destination,
   originInputValue |-> origin, destinationInputValue |-> destination,
   equipmentType |-> "dry_van", weight |-> <<"5", "0", "0", "0">>,
   pickupDate |-> pickupDate]

\* the routes asked for: between two different places
Routes == {r \in Locations \X Locations : r[1] # r[2]}

ValidForms == {Form(r[1], r[2], p) : r \in Routes, p \in PickupDates}

\* the same forms with one field left empty, a weight that is not positive,
\* or a location typed over after it was picked
InvalidForms ==
  LET f == Form(Toronto, Montreal, "1970-01-02")
  IN {[f EXCEPT !.origin = <<>>],
      [f EXCEPT !.destination = <<>>],
      [f EXCEPT !.pickupDate = ""],
      [f EXCEPT !.weight = <<>>],
      [f EXCEPT !.weight = <<"0">>],
      [f EXCEPT !.weight = <<"-", "5">>],
      [f EXCEPT !.originInputValue = <<"T">>],
      [f EXCEPT !.destinationInputValue = Toronto]}

\* the form as the click handler's closure sees it, filled in and submitted
\* in one step where the fields themselves are not followed
FormInputs == ValidForms \cup InvalidForms

\* faulty variant: the typed text is not compared with the picked place
FormErrorLocationsUnchecked(f) ==
  IF \/ f.origin = <<>> \/ f.destination = <<>> \/ f.equipmentType = ""
     \/ f.weight = <<>> \/ f.pickupDate = ""
  THEN Msg("Please fill in all required fields.")
  ELSE IF parseFloat(f.weight) <= 0
  THEN Msg("Invalid weight value.")
  ELSE NoError

\* the message of the validation that stops the form, or NoError
FormError(f) ==
  IF \/ f.origin = <<>> \/ f.destination = <<>> \/ f.equipmentType = ""
     \/ f.weight = <<>> \/ f.pickupDate = ""
  THEN Msg("Please fill in all required fields.")
  ELSE IF parseFloat(f.weight) <= 0
  THEN Msg("Invalid weight value.")
  ELSE IF f.origin # f.originInputValue \/ f.destination # f.destinationInputValue
  THEN Msg("Invalid locations, please select from dropdown.")
  ELSE NoError

\* the body of the POST, with the cached distance read at the click
RequestBody(f) ==
  [origin |-> f.origin,
   destination |-> f.destination,
   equipmentType |-> f.equipmentType,
   weight |-> parseFloat(f.weight),
   pickupDate |-> f.pickupDate,
   cacheDistance |-> getItem(distanceCache, Key(f.origin, f.destination))]

\* faulty variant: the button is not disabled while loading
HandleCreateQuoteNeverDisabled(f, max) ==
  /\ activeTab = "quote"
  /\ IF FormError(f) # NoError
     THEN /\ errorMessage' = FormError(f)
          /\ UNCHANGED <<form, quotes, quote, filters, loading, activeTab,
                         expandedIndex, currentPage, storedQuotes,
                         distanceCache, inflight, lookupResult>>
     ELSE /\ Len(quotes) < max
          /\ errorMessage' = NoError
          /\ loading' = TRUE
          /\ quote' = None
          /\ inflight' = [stage |-> "sent", from |-> "page", method |-> "POST",
                          body |-> RequestBody(f), quotes |-> quotes,
                          calls |-> 0, response |-> NoResponse]
          /\ lookupResult' = "none"
          /\ UNCHANGED <<form, quotes, filters, activeTab, expandedIndex,
                         currentPage, storedQuotes, distanceCache>>

\* handleCreateQuote up to its await: validation, then the request is sent;
\* the button is disabled while loading; a creation is started only while the
\* ledger holds fewer than max quotes
HandleCreateQuoteUpTo(f, max) ==
  /\ activeTab = "quote"
  /\ ~loading
  /\ IF FormError(f) # NoError
     THEN /\ errorMessage' = FormError(f)
          /\ UNCHANGED <<form, quotes, quote, filters, loading, activeTab,
                         expandedIndex, currentPage, storedQuotes,
                         distanceCache, inflight, lookupResult>>
     ELSE /\ Len(quotes) < max
          /\ errorMessage' = NoError
          /\ loading' = TRUE
          /\ quote' = None
          /\ inflight' = [stage |-> "sent", from |-> "page", method |-> "POST",
                          body |-> RequestBody(f), quotes |-> quotes,
                          calls |-> 0, response |-> NoResponse]
          /\ lookupResult' = "none"
          /\ UNCHANGED <<form, quotes, filters, activeTab, expandedIndex,
                         currentPage, storedQuotes, distanceCache>>

HandleCreateQuote(f) == HandleCreateQuoteUpTo(f, MaxQuotes)

\* the cache write of handleCreateQuote after a successful response
CacheAfter(store, body, distance) ==
  IF body.cacheDistance = None /\ distance # 0
  THEN setItem(setItem(store, Key(body.origin, body.destination),
                       NumberToString(distance)),
               Key(body.destination, body.origin), NumberToString(distance))
  ELSE store

\* handleCreateQuote from its await on: the response has arrived
HandleResponse ==
  /\ inflight.stage = "responded"
  /\ inflight.from = "page"
  /\ IF inflight.response.status # 201
     THEN /\ errorMessage' = inflight.response.error
          /\ UNCHANGED <<quotes, quote, storedQuotes, distanceCache>>
     ELSE LET q == inflight.response.quote[1]
              updatedQuotes == UpdatedQuotes(q, inflight.quotes)
          IN /\ distanceCache' = CacheAfter(distanceCache, inflight.body, q.distance)
             /\ storedQuotes' = Some(updatedQuotes)
             /\ quote' = Some(q)
             /\ quotes' = updatedQuotes
             /\ UNCHANGED errorMessage
  /\ loading' = FALSE
  /\ inflight' = Idle
  /\ lookupResult' = "none"
  /\ UNCHANGED <<form, filters, activeTab, expandedIndex, currentPage>>

\* the writes of handleCreateQuote after a successful response, in order
StoreWrites == {"forward", "backward", "quotes"}

\* handleCreateQuote from its await on, when localStorage.setItem throws at
\* one of its writes: the writes before it stay, the state setters after it
\* are not reached, and the catch branch shows the error
HandleResponseStoreFails(at) ==
  /\ inflight.stage = "responded"
  /\ inflight.from = "page"
  /\ inflight.response.status = 201
  /\ LET b == inflight.body
         distance == inflight.response.quote[1].distance
         cached == b.cacheDistance = None /\ distance # 0
         forward == setItem(distanceCache, Key(b.origin, b.destination),
                            NumberToString(distance))
     IN CASE at = "forward" -> cached /\ UNCHANGED distanceCache
          [] at = "backward" -> cached /\ distanceCache' = forward
          [] at = "quotes" ->
               distanceCache' = CacheAfter(distanceCache, b, distance)
  /\ errorMessage' = Msg("Calculation failed: ${error.message}")
  /\ loading' = FALSE
  /\ inflight' = Idle
  /\ lookupResult' = "none"
  /\ UNCHANGED <<form, quotes, quote, filters, activeTab, expandedIndex,
                 currentPage, storedQuotes>>

\* the fetch of /api/createQuote rejects: the catch branch of handleCreateQuote
FetchFails ==
  /\ inflight.stage \in {"sent", "lookup", "responded"}
  /\ inflight.from = "page"
  /\ errorMessage' = Msg("Calculation failed: ${error.message}")
  /\ loading' = FALSE
  /\ inflight' = Idle
  /\ lookupResult' = "none"
  /\ UNCHANGED <<form, quotes, quote, filters, activeTab, expandedIndex,
                 currentPage, storedQuotes, distanceCache>>

\* everything but the form
notForm == <<quotes, quote, filters, loading, errorMessage, activeTab,
             expandedIndex, currentPage, storedQuotes, distanceCache,
             inflight, lookupResult>>

\* place.formatted_address of what the Autocomplete widget hands over: a
\* picked prediction has one, a text entered without picking has none
PlaceAddresses == Locations \cup {<<>>}

\* what is typed into a location field
TypedTexts == {<<>>, <<"T">>, Toronto}

\* what is typed into the weight field
WeightTexts == {<<"0">>, <<"5", "0", "0", "0">>}

\* handlePlaceChange of the origin field: the place goes to origin, its
\* address to the text of the field
OriginPlaceChanged(address) ==
  /\ activeTab = "quote"
  /\ form' = [form EXCEPT !.origin = address, !.originInputValue = address]
  /\ UNCHANGED notForm

DestinationPlaceChanged(address) ==
  /\ activeTab = "quote"
  /\ form' = [form EXCEPT !.destination = address,
                          !.destinationInputValue = address]
  /\ UNCHANGED notForm

\* onChange of the origin field: only its text changes
OriginInputChange(text) ==
  /\ activeTab = "quote"
  /\ form.originInputValue # text
  /\ form' = [form EXCEPT !.originInputValue = text]
  /\ UNCHANGED notForm

DestinationInputChange(text) ==
  /\ activeTab = "quote"
  /\ form.destinationInputValue # text
  /\ form' = [form EXCEPT !.destinationInputValue = text]
  /\ UNCHANGED notForm

setEquipmentType(type) ==
  /\ activeTab = "quote"
  /\ form.equipmentType # type
  /\ form' = [form EXCEPT !.equipmentType = type]
  /\ UNCHANGED notForm

setWeight(text) ==
  /\ activeTab = "quote"
  /\ form.weight # text
  /\ form' = [form EXCEPT !.weight = text]
  /\ UNCHANGED notForm

setPickupDate(date) ==
  /\ activeTab = "quote"
  /\ form.pickupDate # date
  /\ form' = [form EXCEPT !.pickupDate = date]
  /\ UNCHANGED notForm

\* the Calculate button, over the form as it stands
Submit == HandleCreateQuote(form)

\* faulty variant: the ledger changed in memory and never saved
deleteQuoteUnsaved(index) ==
  /\ quotes' = Splice(quotes, index)
  /\ UNCHANGED storedQuotes

\* deleteQuote(index): the ledger without the entry at index, saved
deleteQuote(index) ==
  LET savedQuotes == Splice(quotes, index)
  IN /\ quotes' = savedQuotes
     /\ storedQuotes' = Some(savedQuotes)

filteredQuotes == Filter(quotes, filters)

changeActiveTab(newTab) ==
  /\ activeTab # newTab
  /\ activeTab' = newTab
  /\ expandedIndex' = None
  /\ currentPage' = 1
  /\ UNCHANGED <<form, quotes, quote, filters, loading, errorMessage,
                 storedQuotes, distanceCache, inflight, lookupResult>>

\* the page is loaded anew: fresh component state, the ledger read from the
\* store and sorted; a response still awaited is never delivered
Reload ==
  /\ form' = NoForm
  /\ quotes' = (IF storedQuotes = None THEN <<>> ELSE Sort(storedQuotes[1]))
  /\ quote' = None
  /\ filters' = NoFilters
  /\ loading' = FALSE
  /\ errorMessage' = NoError
  /\ activeTab' = "quote"
  /\ expandedIndex' = None
  /\ currentPage' = 1
  /\ inflight' = (IF inflight.from = "page" THEN Idle ELSE inflight)
  /\ lookupResult' = (IF inflight.from = "page" THEN "none" ELSE lookupResult)
  /\ UNCHANGED <<storedQuotes, distanceCache>>

-----------------------------------------------------------------------------
(* QuoteHistory, rendered over filteredQuotes while the history tab is open *)

Min(a, b) == IF a < b THEN a ELSE b
Max(a, b) == IF a > b THEN a ELSE b

\* faulty variant: the element at end is taken too
SliceThroughEnd(s, start, end) == SubSeq(s, start + 1, Min(end + 1, Len(s)))

\* array.slice(start, end); both count from 0
Slice(s, start, end) == SubSeq(s, start + 1, Min(end, Len(s)))

totalPages == Ceil(Len(filteredQuotes), itemsPerPage)
startIndex == (currentPage - 1) * itemsPerPage
endIndex == startIndex + itemsPerPage
currentQuotes == Slice(filteredQuotes, startIndex, endIndex)

\* currentQuotes for the sequence s shown at page p
Page(s, p) ==
  Slice(s, (p - 1) * itemsPerPage, (p - 1) * itemsPerPage + itemsPerPage)

isHistoryEmpty ==
  /\ Len(filteredQuotes) = 0
  /\ Len(filters.origin) = 0
  /\ Len(filters.destination) = 0
  /\ filters.equipment = ""

\* its last disjunct compares a length with "" and is always true
isFilteredEmpty == Len(filteredQuotes) = 0

\* faulty variant: the page on display stays when its only card is deleted
DeleteClickPageKept(i) ==
  /\ activeTab = "history"
  /\ ~isHistoryEmpty
  /\ ~isFilteredEmpty
  /\ i \in 0..(Len(currentQuotes) - 1)
  /\ LET index == i + startIndex
     IN /\ deleteQuote(index)
        /\ expandedIndex' = (IF expandedIndex = Some(index) THEN None
                             ELSE expandedIndex)
  /\ UNCHANGED <<form, quote, filters, loading, errorMessage, activeTab,
                 currentPage, distanceCache, inflight, lookupResult>>

\* the delete button when localStorage.setItem throws in deleteQuote: the
\* ledger was set before the write, the rest of the click handler is not
\* reached
DeleteClickStoreFails(i) ==
  /\ activeTab = "history"
  /\ ~isHistoryEmpty
  /\ ~isFilteredEmpty
  /\ i \in 0..(Len(currentQuotes) - 1)
  /\ quotes' = Splice(quotes, i + startIndex)
  /\ UNCHANGED <<form, quote, filters, loading, errorMessage, activeTab,
                 expandedIndex, currentPage, storedQuotes, distanceCache,
                 inflight, lookupResult>>

\* the delete button of the card at position i of the page on display
DeleteClick(i) ==
  /\ activeTab = "history"
  /\ ~isHistoryEmpty
  /\ ~isFilteredEmpty
  /\ i \in 0..(Len(currentQuotes) - 1)
  /\ LET index == i + startIndex
         changePage == Len(currentQuotes) = 1
     IN /\ deleteQuote(index)
        /\ expandedIndex' = (IF expandedIndex = Some(index) THEN None
                             ELSE expandedIndex)
        /\ currentPage' = (IF changePage THEN Max(1, currentPage - 1)
                           ELSE currentPage)
  /\ UNCHANGED <<form, quote, filters, loading, errorMessage, activeTab,
                 distanceCache, inflight, lookupResult>>

handleFilterChange(key, value) ==
  /\ activeTab = "history"
  /\ ~isHistoryEmpty
  /\ filters[key] # value
  /\ filters' = [filters EXCEPT ![key] = value]
  /\ currentPage' = 1
  /\ UNCHANGED <<form, quotes, quote, loading, errorMessage, activeTab,
                 expandedIndex, storedQuotes, distanceCache, inflight,
                 lookupResult>>

\* a click on the card at position i of the page on display
handleToggle(i) ==
  /\ activeTab = "history"
  /\ ~isHistoryEmpty
  /\ ~isFilteredEmpty
  /\ i \in 0..(Len(currentQuotes) - 1)
  /\ LET index == i + startIndex
     IN expandedIndex' = (IF expandedIndex = Some(index) THEN None
                          ELSE Some(index))
  /\ UNCHANGED <<form, quotes, quote, filters, loading, errorMessage,
                 activeTab, currentPage, storedQuotes, distanceCache,
                 inflight, lookupResult>>

\* the Previous button, disabled on page 1
PreviousPage ==
  /\ activeTab = "history"
  /\ ~isHistoryEmpty
  /\ totalPages > 0
  /\ currentPage # 1
  /\ currentPage' = Max(1, currentPage - 1)
  /\ UNCHANGED <<form, quotes, quote, filters, loading, errorMessage,
                 activeTab, expandedIndex, storedQuotes, distanceCache,
                 inflight, lookupResult>>

\* the Next button, disabled on the last page
NextPage ==
  /\ activeTab = "history"
  /\ ~isHistoryEmpty
  /\ totalPages > 0
  /\ currentPage # totalPages
  /\ currentPage' = Min(totalPages, currentPage + 1)
  /\ UNCHANGED <<form, quotes, quote, filters, loading, errorMessage,
                 activeTab, expandedIndex, storedQuotes, distanceCache,
                 inflight, lookupResult>>

\* the numbered button of a page; page counts from 0
GoToPage(page) ==
  /\ activeTab = "history"
  /\ ~isHistoryEmpty
  /\ page \in 0..(totalPages - 1)
  /\ currentPage' = page + 1
  /\ UNCHANGED <<form, quotes, quote, filters, loading, errorMessage,
                 activeTab, expandedIndex, storedQuotes, distanceCache,
                 inflight, lookupResult>>

-----------------------------------------------------------------------------
(* pages/api/createQuote *)

\* requests made to the endpoint by a client other than the page
\* (a field that is absent is falsy like "" and 0)
DirectBodies ==
  [origin : {Toronto, <<>>},
   destination : {Montreal, <<>>},
   equipmentType : {"dry_van", "tanker", ""},
   weight : {0, -5, 5000},
   pickupDate : {"1970-01-02", ""},
   cacheDistance : {None, Some(<<"3">>)}]

DirectRequest(method, body) ==
  /\ inflight.stage = "idle"
  /\ inflight' = [stage |-> "sent", from |-> "direct", method |-> method,
                  body |-> body, quotes |-> <<>>, calls |-> 0,
                  response |-> NoResponse]
  /\ lookupResult' = "none"
  /\ UNCHANGED pageVars

DirectResponse ==
  /\ inflight.stage = "responded"
  /\ inflight.from = "direct"
  /\ inflight' = Idle
  /\ lookupResult' = "none"
  /\ UNCHANGED pageVars

ErrorResponse(status, error) ==
  [status |-> status, error |-> error, quote |-> None]

MissingField(body) ==
  \/ body.origin = <<>> \/ body.destination = <<>> \/ body.equipmentType = ""
  \/ body.weight = 0 \/ body.pickupDate = ""

\* faulty variant: a missing distance is priced as a distance of 0
QuoteResponseZeroForNull(body, distance) ==
  [status |-> 201, error |-> NoError,
   quote |-> Some(BuildQuote(body, IF distance = None THEN 0 ELSE distance[1]))]

\* the handler's answer once it holds a distance: None is null or undefined
QuoteResponse(body, distance) ==
  IF distance = None
  THEN ErrorResponse(400, NoRouteMsg(body.origin, body.destination))
  ELSE [status |-> 201, error |-> NoError,
        quote |-> Some(BuildQuote(body, distance[1]))]

\* faulty variant: the cached distance is ignored and looked up again
UsesCacheDistanceNever(body) == FALSE

\* the handler takes the cached distance of the request when there is one
UsesCacheDistance(body) == body.cacheDistance # None

\* the handler up to its answer or to its await of getDistance
HandlerReceive ==
  /\ inflight.stage = "sent"
  /\ IF inflight.method # "POST"
     THEN inflight' = [inflight EXCEPT !.stage = "responded",
            !.response = ErrorResponse(405, Msg("Method not allowed."))]
     ELSE IF MissingField(inflight.body)
     THEN inflight' = [inflight EXCEPT !.stage = "responded",
            !.response = ErrorResponse(400, Msg("All fields are required."))]
     ELSE IF UsesCacheDistance(inflight.body)
     THEN inflight' = [inflight EXCEPT !.stage = "responded",
            !.response = QuoteResponse(inflight.body,
                           Some(parseFloat(inflight.body.cacheDistance[1])))]
     ELSE inflight' = [inflight EXCEPT !.stage = "lookup",
                                       !.calls = inflight.calls + 1]
  /\ UNCHANGED <<pageVars, lookupResult>>

\* what getDistance resolves to: kilometres, or None for null and undefined
getDistance(outcome, metres) ==
  IF outcome = "OK" THEN Some(metres \div 1000) ELSE None

\* the Distance Matrix request of getDistance ends and the handler answers
GetDistanceReturn(outcome, metres) ==
  /\ inflight.stage = "lookup"
  /\ lookupResult' = outcome
  /\ inflight' = [inflight EXCEPT !.stage = "responded",
       !.response = QuoteResponse(inflight.body, getDistance(outcome, metres))]
  /\ UNCHANGED pageVars

-----------------------------------------------------------------------------

Next ==
  \/ \E f \in FormInputs : HandleCreateQuote(f)
  \/ HandleResponse
  \/ FetchFails
  \/ \E i \in 0..(itemsPerPage - 1) : DeleteClick(i)
  \/ \E v \in OriginFilters : handleFilterChange("origin", v)
  \/ \E v \in EquipmentFilters : handleFilterChange("equipment", v)
  \/ \E t \in {"quote", "history"} : changeActiveTab(t)
  \/ Reload
  \/ HandlerReceive
  \/ \E o \in LookupOutcomes, m \in MetresValues : GetDistanceReturn(o, m)

Spec == Init /\ [][Next]_vars

\* the endpoint alone, called by a client other than the page
NextEndpoint ==
  \/ \E m \in {"POST", "GET"}, b \in DirectBodies : DirectRequest(m, b)
  \/ DirectResponse
  \/ HandlerReceive
  \/ \E o \in LookupOutcomes, m \in MetresValues : GetDistanceReturn(o, m)

SpecEndpoint == Init /\ [][NextEndpoint]_vars

\* addresses with the '-' that also separates the two parts of a cache key
DashedOrigin == <<"A", "-", "B">>
PlainDestination == <<"C">>
PlainOrigin == <<"A">>
DashedDestination == <<"B", "-", "C">>

\* two routes between different pairs of places
DashedRoutes ==
  {<<DashedOrigin, PlainDestination>>, <<PlainOrigin, DashedDestination>>}

\* what the Distance Matrix answers for a route, in metres: one distance per
\* pair of places
RoadMetres(origin, destination) ==
  IF <<origin, destination>> = <<DashedOrigin, PlainDestination>>
  THEN 2000 ELSE 3000

\* creations for those routes, each lookup answered with the route's distance
NextKeys ==
  \/ \E r \in DashedRoutes, p \in PickupDates :
       HandleCreateQuote(Form(r[1], r[2], p))
  \/ HandlerReceive
  \/ GetDistanceReturn("OK", RoadMetres(inflight.body.origin,
                                        inflight.body.destination))
  \/ HandleResponse
  \/ Reload

SpecKeys == Init /\ [][NextKeys]_vars

\* creations on the page where every request sent is answered: the endpoint
\* runs, its lookup ends, and the page takes the response that has arrived
LookupEnds ==
  \E o \in LookupOutcomes, m \in MetresValues : GetDistanceReturn(o, m)

NextLive ==
  \/ \E f \in FormInputs : HandleCreateQuote(f)
  \/ HandlerReceive
  \/ LookupEnds
  \/ HandleResponse
  \/ FetchFails
  \/ \E t \in {"quote", "history"} : changeActiveTab(t)
  \/ Reload

SpecLive ==
  /\ Init /\ [][NextLive]_vars
  /\ WF_vars(HandlerReceive)
  /\ WF_vars(LookupEnds)
  /\ WF_vars(HandleResponse)

\* a step in which a write to the store throws
StoreFailure ==
  \/ \E i \in 0..(itemsPerPage - 1) : DeleteClickStoreFails(i)
  \/ \E at \in StoreWrites : HandleResponseStoreFails(at)

\* creations and deletes over a store whose writes can fail
NextStorage ==
  \/ \E f \in ValidForms : HandleCreateQuote(f)
  \/ HandlerReceive
  \/ \E m \in MetresValues : GetDistanceReturn("OK", m)
  \/ HandleResponse
  \/ \E i \in 0..(itemsPerPage - 1) : DeleteClick(i)
  \/ \E t \in {"quote", "history"} : changeActiveTab(t)
  \/ Reload
  \/ StoreFailure

SpecStorage == Init /\ [][NextStorage]_vars

\* the quotes of a ledger saved by earlier visits: more than a page of them,
\* no two alike, all over the 2 km between Toronto and Montreal, the first
\* one in the other direction
PagedQuotes == 7

PagedBody(i) ==
  [origin |-> IF i = 1 THEN Montreal ELSE Toronto,
   destination |-> IF i = 1 THEN Toronto ELSE Montreal,
   equipmentType |-> IF i % 2 = 0 THEN "reefer" ELSE "dry_van",
   weight |-> 1000 * i,
   pickupDate |-> IF 2 * i <= PagedQuotes THEN "1970-01-02" ELSE "1970-01-03",
   cacheDistance |-> None]

PagedLedger == [i \in 1..PagedQuotes |-> BuildQuote(PagedBody(i), 2)]

\* the page loaded over the store those visits left
InitPaged ==
  /\ form = NoForm
  /\ quotes = Sort(PagedLedger)
  /\ quote = None
  /\ filters = NoFilters
  /\ loading = FALSE
  /\ errorMessage = NoError
  /\ activeTab = "quote"
  /\ expandedIndex = None
  /\ currentPage = 1
  /\ storedQuotes = Some(PagedLedger)
  /\ distanceCache =
       setItem(setItem(EmptyStore, Key(Toronto, Montreal), NumberToString(2)),
               Key(Montreal, Toronto), NumberToString(2))
  /\ inflight = Idle
  /\ lookupResult = "none"

DestinationFilters == {<<>>, <<"x">>}

\* the history view over that ledger: browsed, filtered and deleted from
NextHistory ==
  \/ \E t \in {"quote", "history"} : changeActiveTab(t)
  \/ \E i \in 0..(itemsPerPage - 1) : DeleteClick(i)
  \/ \E v \in OriginFilters : handleFilterChange("origin", v)
  \/ \E v \in EquipmentFilters : handleFilterChange("equipment", v)
  \/ \E v \in DestinationFilters : handleFilterChange("destination", v)
  \/ PreviousPage
  \/ NextPage
  \/ \E page \in 0..PagedQuotes : GoToPage(page)

SpecHistory == InitPaged /\ [][NextHistory]_vars

\* the same history view with its cards opened and closed
NextExpand ==
  \/ NextHistory
  \/ \E i \in 0..(itemsPerPage - 1) : handleToggle(i)

SpecExpand == InitPaged /\ [][NextExpand]_vars

\* the same with creations for the cached route, started while the ledger
\* holds no more than a page, and with the origin filter alone
NextPaged ==
  \/ \E t \in {"quote", "history"} : changeActiveTab(t)
  \/ \E i \in 0..(itemsPerPage - 1) : DeleteClick(i)
  \/ \E v \in OriginFilters : handleFilterChange("origin", v)
  \/ PreviousPage
  \/ NextPage
  \/ \E page \in 0..PagedQuotes : GoToPage(page)
  \/ HandleCreateQuoteUpTo(Form(Toronto, Montreal, "1970-01-02"),
                           itemsPerPage + 1)
  \/ HandlerReceive
  \/ HandleResponse

SpecPaged == InitPaged /\ [][NextPaged]_vars

\* the form filled in field by field and submitted, while no lookup finds a
\* route
NextForm ==
  \/ \E a \in PlaceAddresses : OriginPlaceChanged(a)
  \/ \E a \in PlaceAddresses : DestinationPlaceChanged(a)
  \/ \E t \in TypedTexts : OriginInputChange(t)
  \/ \E t \in TypedTexts : DestinationInputChange(t)
  \/ \E e \in EquipmentTypes : setEquipmentType(e)
  \/ \E w \in WeightTexts : setWeight(w)
  \/ \E d \in PickupDates : setPickupDate(d)
  \/ Submit
  \/ HandlerReceive
  \/ \E o \in {"ZERO_RESULTS", "error"} : GetDistanceReturn(o, 0)
  \/ HandleResponse

SpecForm == Init /\ [][NextForm]_vars

\* requests that pass the handler's checks, over the weights on both sides
\* of 10000 and cached distances on both sides of a day's travel
RateBodies ==
  [origin : {Toronto},
   destination : {Montreal},
   equipmentType : EquipmentTypes,
   weight : {1, 9999, 10000, 10001, 15000},
   pickupDate : {"1970-01-02"},
   cacheDistance : {None, Some(<<"0">>), Some(<<"5", "4", "1">>),
                    Some(<<"5", "4", "2">>)}]

RateMetres == {0, 3000, 541000, 542000, 1083000}

\* the endpoint pricing such requests
NextRate ==
  \/ \E b \in RateBodies : DirectRequest("POST", b)
  \/ DirectResponse
  \/ HandlerReceive
  \/ \E o \in LookupOutcomes, m \in RateMetres : GetDistanceReturn(o, m)

SpecRate == Init /\ [][NextRate]_vars

-----------------------------------------------------------------------------
(* Properties *)

Quote201 == inflight.response.status = 201

\* a step in which the page takes a successful response
CreationSucceeds == Quote201 /\ HandleResponse

\* the positions in s, from 0, of the quotes that match f, in order
RECURSIVE MatchPositions(_, _, _)
MatchPositions(s, f, k) ==
  IF s = <<>> THEN <<>>
  ELSE (IF MatchesFilters(Head(s), f) THEN <<k>> ELSE <<>>)
         \o MatchPositions(Tail(s), f, k + 1)

\* the ledger position of the quote shown at position index of the view
LedgerPosition(index) == MatchPositions(quotes, filters, 0)[index + 1]

\* C1: deleting the quote shown at a position of the filtered, paginated view
\* removes exactly that quote from the ledger and from the store.
C1_DeleteRemovesShownQuote ==
  [][\A i \in 0..(itemsPerPage - 1) :
       DeleteClick(i) =>
         /\ quotes' = Splice(quotes, LedgerPosition(i + startIndex))
         /\ storedQuotes' = Some(quotes')]_vars

\* the last position of the ledger s whose quote has the pickupDate of q
LastTie(s, q) ==
  CHOOSE i \in 1..Len(s) :
    /\ s[i].pickupDate = q.pickupDate
    /\ \A j \in (i + 1)..Len(s) : s[j].pickupDate # q.pickupDate

\* C2: a created quote is placed after every quote of the ledger that has
\* its pickupDate.
C2_NewQuoteAfterTies ==
  [][CreationSucceeds => quotes'[LastTie(quotes', quote'[1])] = quote'[1]]_vars

\* C3: the ledger is sorted ascending by pickupDate in every state.
C3_LedgerSorted ==
  \A i \in 1..Len(quotes) : \A j \in i..Len(quotes) :
    DateValue(quotes[i].pickupDate) <= DateValue(quotes[j].pickupDate)

\* the quote created last stands last, behind a quote of an earlier date:
\* the place only the sort can have given it
C3_Witness ==
  /\ Len(quotes) >= 2
  /\ quote = Some(quotes[Len(quotes)])
  /\ DateValue(quotes[1].pickupDate) < DateValue(quotes[Len(quotes)].pickupDate)

\* C4: a delete made while a creation awaits its response is not lost: the
\* creation leaves the ledger the deletions left, with the new quote added
\* (one quote longer in every serial order), and the store equal to it.
C4_DeleteNotLost ==
  [][CreationSucceeds =>
       /\ Len(quotes') = Len(quotes) + 1
       /\ \E i \in 1..Len(quotes') : quotes'[i] = quote'[1]
       /\ storedQuotes' = Some(quotes')]_vars

\* C5: the store's 'quotes' item holds the ledger, quote for quote, whenever
\* anything was saved; nothing is saved later than the ledger changes.
C5_StoreEqualsLedger ==
  IF storedQuotes = None THEN quotes = <<>> ELSE storedQuotes = Some(quotes)

\* creations and a delete have happened: the quote created last is gone from
\* a ledger that still holds another
C5_Witness ==
  /\ quote # None
  /\ Len(quotes) >= 1
  /\ \A i \in 1..Len(quotes) : quotes[i] # quote[1]
  /\ storedQuotes = Some(quotes)

\* C6: a creation that used the lookup leaves the resolved distance in the
\* cache under both directions of the route, for every distance, 0 included.
C6_CacheBothDirections ==
  [][(CreationSucceeds /\ inflight.body.cacheDistance = None) =>
       LET b == inflight.body
           d == Some(NumberToString(quote'[1].distance))
       IN /\ getItem(distanceCache', Key(b.origin, b.destination)) = d
          /\ getItem(distanceCache', Key(b.destination, b.origin)) = d]_vars

\* C7: a request makes no lookup when the cache holds a distance for its
\* route and at most one otherwise; a lookup that found no route or failed
\* is followed by the answer, not by another lookup.
C7_AtMostOneLookup ==
  /\ inflight.calls <= 1
  /\ (/\ inflight.from = "page"
      /\ getItem(distanceCache,
                 Key(inflight.body.origin, inflight.body.destination)) # None)
       => inflight.calls = 0
  /\ lookupResult \in {"ZERO_RESULTS", "error"}
       => (inflight.stage = "responded" /\ inflight.calls = 1)

\* a creation for a cached route has been answered with a quote, without a lookup
C7_Witness ==
  /\ inflight.from = "page"
  /\ inflight.stage = "responded"
  /\ inflight.body.cacheDistance # None
  /\ Quote201
  /\ inflight.calls = 0

\* C8: when the lookup reports no route, the endpoint answers with the
\* no-route error and no quote, and the page shows that error, shows no
\* quote and leaves the ledger, the store and the cache as they were.
C8_NoRouteChangesNothing ==
  [][lookupResult = "ZERO_RESULTS" =>
       /\ inflight.response =
            ErrorResponse(400, NoRouteMsg(inflight.body.origin,
                                          inflight.body.destination))
       /\ HandleResponse =>
            /\ errorMessage' = NoRouteMsg(inflight.body.origin,
                                          inflight.body.destination)
            /\ quote' = None
            /\ ~loading'
            /\ UNCHANGED <<quotes, storedQuotes, distanceCache>>]_vars

\* the page awaits the answer to a lookup that found no route, over a
\* ledger that holds a quote
C8_Witness ==
  /\ lookupResult = "ZERO_RESULTS"
  /\ inflight.from = "page"
  /\ inflight.stage = "responded"
  /\ Len(quotes) >= 1

\* C9: a lookup that failed is answered with an error other than the
\* no-route error.
C9_LookupFailureDistinct ==
  lookupResult = "error" =>
    /\ inflight.response.status # 201
    /\ inflight.response.error #
         NoRouteMsg(inflight.body.origin, inflight.body.destination)

\* C10: no lookup is made for a request with a missing field or a weight
\* that is not positive.
C10_InvalidBeforeLookup ==
  inflight.calls >= 1 =>
    (~MissingField(inflight.body) /\ inflight.body.weight > 0)

\* C11: the endpoint answers with a quote only when the equipment type is
\* one of the three known types and the weight is positive.
C11_QuoteOnlyForValidInput ==
  Quote201 =>
    (inflight.body.equipmentType \in EquipmentTypes /\ inflight.body.weight > 0)

\* the quote of the answer under way; read only when the answer is a 201
Answered == inflight.response.quote[1]

\* an answer with a quote to a request the rate computation is specified for
ValidQuote201 ==
  /\ Quote201
  /\ Answered.distance >= 0
  /\ Answered.weight > 0
  /\ Answered.equipmentType \in EquipmentTypes

\* the amount of n currency units
Currency(n) == Times(Times(Amount(n), 10000), 10000)

C17_FuelSurchargeOnBasePlusEquipment ==
  ValidQuote201 =>
    LET q == Answered
        thousandths == IF q.weight < 10000 THEN 237 ELSE 557
    IN Times(q.fuelSurcharge, 1000) =
         Times(Plus(q.baseRate, q.equipmentCharge), thousandths)

\* a flatbed load of exactly 10000 lbs is priced over a distance above 0
C17_Witness ==
  /\ ValidQuote201
  /\ Answered.weight = 10000
  /\ Answered.equipmentType = "flatbed"
  /\ Answered.distance = 3

\* C18: the weight factor is 0 up to 10000 lbs, 10000 included, and 0.10 per
\* 100 lbs above 10000 beyond that, whatever the distance and the equipment.
C18_WeightFactor ==
  ValidQuote201 =>
    LET q == Answered
    IN IF q.weight <= 10000 THEN q.weightFactor = Amount(0)
       ELSE Times(q.weightFactor, 1000) = Currency(q.weight - 10000)

\* a load one pound over 10000 is priced over a distance of 0
C18_Witness ==
  /\ ValidQuote201
  /\ Answered.weight = 10001
  /\ Answered.distance = 0
  /\ Answered.weightFactor # Amount(0)

\* C19: the days of a quote are 1 for a distance of 0 and otherwise the least
\* number of 541 km days that cover the distance: a positive integer, 1 for
\* 541 and 2 for 542, for a cached distance as for a looked-up one.
C19_DaysCoverDistance ==
  ValidQuote201 =>
    LET q == Answered
    IN /\ q.days \in Nat /\ q.days >= 1
       /\ q.distance = 0 => q.days = 1
       /\ q.distance > 0 =>
            (q.days - 1) * 541 < q.distance /\ q.distance <= q.days * 541
       /\ q.distance = 541 => q.days = 1
       /\ q.distance = 542 => q.days = 2

\* a cached distance of 542 km was answered with two days, without a lookup
C19_Witness ==
  /\ ValidQuote201
  /\ inflight.body.cacheDistance = Some(<<"5", "4", "2">>)
  /\ inflight.calls = 0
  /\ Answered.days = 2

\* the text of both location fields is the address of the place picked last
TextsArePickedPlaces ==
  /\ form.originInputValue = form.origin
  /\ form.destinationInputValue = form.destination

\* C12: the Calculate button sends a request only when the text of each
\* location field is the address of the place picked last for it; when both
\* places are picked and a text differs, a form otherwise complete is stopped
\* with the invalid-locations error.
C12_RequestOnlyForPickedPlaces ==
  [][Submit =>
       /\ inflight' # inflight =>
            /\ TextsArePickedPlaces
            /\ inflight'.body.origin = form.originInputValue
            /\ inflight'.body.destination = form.destinationInputValue
       /\ (/\ form.origin # <<>> /\ form.destination # <<>>
           /\ form.pickupDate # "" /\ form.weight # <<>>
           /\ parseFloat(form.weight) > 0
           /\ ~TextsArePickedPlaces)
            => /\ errorMessage' =
                    Msg("Invalid locations, please select from dropdown.")
               /\ UNCHANGED <<inflight, loading>>]_vars

\* Toronto was picked as origin and the text cut back to "T": the button
\* has answered with the invalid-locations error and sent nothing
C12_Witness ==
  /\ form.origin = Toronto
  /\ form.originInputValue = <<"T">>
  /\ errorMessage = Msg("Invalid locations, please select from dropdown.")
  /\ inflight.stage = "idle"

\* C13: the page on display is at least 1 and at most the number of pages
\* of the filtered view, or 1 when that view is empty.
C13_PageInRange ==
  /\ currentPage >= 1
  /\ currentPage <= Max(1, totalPages)

\* the quotes of the second page were deleted there, down to its only one,
\* and the view is on page 1, the last page left
C13_Witness ==
  /\ activeTab = "history"
  /\ quotes = SubSeq(PagedLedger, 1, itemsPerPage)
  /\ storedQuotes = Some(quotes)
  /\ currentPage = 1

\* text contains part, letters compared without regard to case
ContainsIgnoringCase(text, part) ==
  \E offset \in 0..(Len(text) - Len(part)) :
    \A j \in 1..Len(part) : LowerChar(text[offset + j]) = LowerChar(part[j])

\* the ledger positions of the quotes the filters let through
Passing ==
  {i \in 1..Len(quotes) :
     /\ filters.origin = <<>>
          \/ ContainsIgnoringCase(quotes[i].origin, filters.origin)
     /\ filters.destination = <<>>
          \/ ContainsIgnoringCase(quotes[i].destination, filters.destination)
     /\ filters.equipment = "" \/ quotes[i].equipmentType = filters.equipment}

\* the k-th of those positions, in ledger order
PassingAt(k) ==
  CHOOSE i \in Passing : Cardinality({j \in Passing : j <= i}) = k

\* C14: the filtered view holds exactly the quotes of the ledger that pass
\* the three filters, in ledger order; with every filter empty it is the
\* ledger.
C14_ViewIsMatchingSubsequence ==
  /\ Len(filteredQuotes) = Cardinality(Passing)
  /\ \A k \in 1..Len(filteredQuotes) : filteredQuotes[k] = quotes[PassingAt(k)]
  /\ filters = NoFilters => filteredQuotes = quotes

\* the lower-case origin filter "t" and the reefer filter together show the
\* three reefers from Toronto out of the seven quotes
C14_Witness ==
  /\ activeTab = "history"
  /\ filters.origin = <<"t">>
  /\ filters.equipment = "reefer"
  /\ Len(quotes) = PagedQuotes
  /\ Len(filteredQuotes) \in 1..(PagedQuotes - 1)

\* the pages from p to the last, one after the other
RECURSIVE PagesFrom(_, _, _)
PagesFrom(s, p, last) ==
  IF p > last THEN <<>> ELSE Page(s, p) \o PagesFrom(s, p + 1, last)

\* C15: page p of a sequence is its elements from position (p - 1) * 5 up to
\* but without position p * 5, counted from 0; a page past the end is empty;
\* the pages up to the last, one after the other, are the sequence.
C15_PagesPartitionView ==
  LET s == filteredQuotes
      n == Len(s)
  IN /\ currentQuotes = Page(s, currentPage)
     /\ \A p \in 1..(totalPages + 2) :
          /\ Len(Page(s, p)) = Min(p * 5, n) - Min((p - 1) * 5, n)
          /\ \A k \in 1..Len(Page(s, p)) : Page(s, p)[k] = s[(p - 1) * 5 + k]
          /\ p > totalPages => Page(s, p) = <<>>
     /\ PagesFrom(s, 1, totalPages) = s

\* the second page is on display and shows the two quotes beyond the first
\* five
C15_Witness ==
  /\ activeTab = "history"
  /\ currentPage = 2
  /\ Len(filteredQuotes) = itemsPerPage + 2
  /\ currentQuotes = <<filteredQuotes[itemsPerPage + 1],
                       filteredQuotes[itemsPerPage + 2]>>

\* the cache holds a route in both directions or in neither
CacheBothOrNeither ==
  \A o \in Locations, d \in Locations :
    getItem(distanceCache, Key(o, d)) = None
      <=> getItem(distanceCache, Key(d, o)) = None

\* C20: a creation or a delete in which a write to the store throws changes
\* neither the ledger nor the stored ledger, leaves them equal, and leaves
\* the cache with both directions of a route or neither.
C20_FailedWriteChangesNothing ==
  [][StoreFailure =>
       /\ UNCHANGED <<quotes, storedQuotes>>
       /\ C5_StoreEqualsLedger'
       /\ CacheBothOrNeither']_vars

\* a step that changes a filter of the history view
FilterChanges ==
  \/ \E v \in OriginFilters : handleFilterChange("origin", v)
  \/ \E v \in EquipmentFilters : handleFilterChange("equipment", v)
  \/ \E v \in DestinationFilters : handleFilterChange("destination", v)

\* C21: a successful creation leaves the previous ledger plus exactly the new
\* quote, a delete leaves the previous ledger less one entry with the others
\* in their order, and a filter change leaves the ledger and the store alone.
C21_LedgerChangesByWholeRecords ==
  [][/\ CreationSucceeds =>
          \E k \in 1..Len(quotes') :
            quotes'[k] = quote'[1] /\ Splice(quotes', k - 1) = quotes
     /\ (\E i \in 0..(itemsPerPage - 1) : DeleteClick(i)) =>
          \E k \in 0..(Len(quotes) - 1) : quotes' = Splice(quotes, k)
     /\ FilterChanges => UNCHANGED <<quotes, storedQuotes>>]_vars

\* C22: the distance the cache holds for the route of a request is the
\* distance of that route and of no other, also for addresses with a '-'.
C22_CacheHitIsForSameRoute ==
  (inflight.from = "page" /\ inflight.body.cacheDistance # None) =>
    parseFloat(inflight.body.cacheDistance[1]) * 1000 =
      RoadMetres(inflight.body.origin, inflight.body.destination)

\* a click on the button that sends a request
RequestSent == (\E f \in FormInputs : HandleCreateQuote(f)) /\ loading'

\* C23: a request is sent only while none is under way, loading is true
\* exactly while one is, and loading, once true, becomes false again.
C23_OneCreationAndLoadingEnds ==
  /\ [][RequestSent => (~loading /\ inflight.stage = "idle")]_vars
  /\ [](loading <=> inflight.stage # "idle")
  /\ (loading ~> ~loading)

\* a creation has ended in the catch branch, with loading false again
C23_Witness ==
  /\ errorMessage = Msg("Calculation failed: ${error.message}")
  /\ ~loading
  /\ inflight.stage = "idle"

\* the quote of the card drawn expanded on the page on display, if any:
\* isExpanded is index === expandedIndex for the cards of currentQuotes
ExpandedQuote ==
  IF /\ activeTab = "history"
     /\ expandedIndex # None
     /\ ~isFilteredEmpty
     /\ expandedIndex[1] >= startIndex
     /\ expandedIndex[1] < startIndex + Len(currentQuotes)
  THEN Some(filteredQuotes[expandedIndex[1] + 1])
  ELSE None

DeleteOfAnotherCard ==
  \E i \in 0..(itemsPerPage - 1) :
    DeleteClick(i) /\ expandedIndex # Some(i + startIndex)

PageChanges == PreviousPage \/ NextPage \/ \E page \in 0..PagedQuotes : GoToPage(page)

\* C24: while a card is expanded, the delete of another card, a change of the
\* filters or a change of page leaves either the same quote expanded or no
\* card expanded, never a different quote.
C24_ExpandedCardKeepsItsQuote ==
  [][(ExpandedQuote # None /\ (DeleteOfAnotherCard \/ FilterChanges \/ PageChanges))
       => (ExpandedQuote' = None \/ ExpandedQuote' = ExpandedQuote)]_vars

====
